---------------------------- MODULE Spec2Model ----------------------------
(***************************************************************************)
(* The keypad master-code API of vestiar (src/vestiar_code_api.h): the     *)
(* code store (loadCode, saveCode) over /code.json and the three handlers  *)
(* of /api/code (GET, POST, OPTIONS).                                      *)
(*                                                                         *)
(* A String is the sequence of its characters, each character its ASCII    *)
(* code.  A String built from a const char* holds no NUL character, so the *)
(* strings below are NUL-free.  The server is single threaded: a handler   *)
(* runs to completion, its response is sent, and only then the next        *)
(* request is taken.                                                       *)
(***************************************************************************)
EXTENDS Integers, Sequences, FiniteSets

VARIABLES
    masterCode,   \* String masterCode: the code held in memory
    file,         \* the content of FILE_CODE on the filesystem
    op,           \* the operation just run: "GET", "POST", "OPTIONS" or "none"
    req,          \* the body of the request just handled
    resp,         \* the response sent by that handler
    io,           \* what the filesystem did during that handler
    pre,          \* masterCode and file as they were when the handler started
    last          \* the latest POST answered 200 since the last loadCode()

vars == <<masterCode, file, op, req, resp, io, pre, last>>

----------------------------------------------------------------------------
(* Program constants *)

MinCodeLen == 4
MaxCodeLen == 8
Char0 == 48
Char9 == 57

(* Bound of the model: the longest string a request or the file carries *)
MaxLen == 9

----------------------------------------------------------------------------
(* Strings and JSON values *)

Fill(c, n) == [i \in 1..n |-> c]

EmptyString == <<>>

\* The characters next to the digit range: '/' and ':'
CharBelow0 == Char0 - 1
CharAbove9 == Char9 + 1

\* Lengths around the two limits of the format check
Lens == {0} \cup ((MinCodeLen - 1)..(MinCodeLen + 1)) \cup (MaxCodeLen..MaxLen)

Strings ==
    {Fill(Char0, n) : n \in Lens}
    \cup {Fill(Char9, n) : n \in {MinCodeLen, MaxCodeLen}}
    \cup {Fill(Char0, MinCodeLen - 1) \o <<CharBelow0>>,
          <<CharAbove9>> \o Fill(Char9, MaxCodeLen - 1)}

\* A member of a JSON object: absent, a value that is not a string, or a string
JAbsent == [kind |-> "absent", s |-> EmptyString]
JOther == [kind |-> "other", s |-> EmptyString]
JStr(s) == [kind |-> "string", s |-> s]

JValues == {JAbsent, JOther} \cup {JStr(s) : s \in Strings}

\* d[key] | dflt, read as const char*: the string when the member is one,
\* dflt otherwise
OrDefault(v, dflt) == IF v.kind = "string" THEN v.s ELSE dflt

----------------------------------------------------------------------------
(* The record file *)

FileAbsent == [kind |-> "absent", code |-> JAbsent]
FileMalformed == [kind |-> "malformed", code |-> JAbsent]
FileJson(v) == [kind |-> "json", code |-> v]

Files == {FileAbsent, FileMalformed} \cup {FileJson(v) : v \in JValues}

\* What the filesystem does to a write: the content is written, the write
\* comes short (the truncated file is left empty or partial), or the old
\* content is left in place
WriteOutcomes == {"written", "short", "kept"}

\* A handler that does not reach the filesystem
NoIo == [open |-> TRUE, write |-> "none"]
\* LittleFS.open succeeds or not; when it does, the write has one outcome
IoOutcomes ==
    {[open |-> FALSE, write |-> "none"]}
    \cup {[open |-> TRUE, write |-> w] : w \in WriteOutcomes}

----------------------------------------------------------------------------
(* Code store *)

\* masterCode as the firmware defines it before setup() runs
StartupMasterCode == EmptyString

\* loadCode(): <<return value, masterCode afterwards>>
LoadCode(mc, f, openOk) ==
    IF f.kind = "absent" THEN [ok |-> FALSE, masterCode |-> mc]
    ELSE IF ~openOk THEN [ok |-> FALSE, masterCode |-> mc]
    ELSE IF f.kind = "malformed" THEN [ok |-> FALSE, masterCode |-> mc]
    ELSE IF f.code.kind # "string" THEN [ok |-> FALSE, masterCode |-> mc]
    ELSE [ok |-> TRUE, masterCode |-> f.code.s]

\* The content of the file after open(FILE_CODE, "w"), serializeJson, close
Written(code, f, w) ==
    CASE w = "written" -> FileJson(JStr(code))
      [] w = "short" -> FileMalformed
      [] OTHER -> f

\* saveCode with masterCode assigned before the file is opened
SaveCodeAssignFirst(code, mc, f, o) ==
    IF ~o.open THEN [ok |-> FALSE, masterCode |-> code, file |-> f]
    ELSE [ok |-> TRUE, masterCode |-> code, file |-> Written(code, f, o.write)]

\* saveCode(code): return value, masterCode and file afterwards
SaveCode(code, mc, f, o) ==
    IF ~o.open THEN [ok |-> FALSE, masterCode |-> mc, file |-> f]
    ELSE [ok |-> TRUE, masterCode |-> code, file |-> Written(code, f, o.write)]

----------------------------------------------------------------------------
(* Requests and responses *)

BodyNone == [kind |-> "none", current |-> JAbsent, new |-> JAbsent,
             confirm |-> JAbsent]
BodyMalformed == [kind |-> "malformed", current |-> JAbsent, new |-> JAbsent,
                  confirm |-> JAbsent]
BodyJson(c, n, k) == [kind |-> "json", current |-> c, new |-> n, confirm |-> k]

Bodies ==
    {BodyNone, BodyMalformed}
    \cup {BodyJson(c, n, k) : c \in JValues, n \in JValues, k \in JValues}

\* sendJsonWithCORS(code, body): the status and the members of the body
Response(status, err, set, len) ==
    [status |-> status, err |-> err, set |-> set, len |-> len]

ErrorResponse(status, err) == Response(status, err, FALSE, 0)

NoResp == Response(0, "", FALSE, 0)

NoPre == [masterCode |-> EmptyString, file |-> FileAbsent]

\* No POST was answered 200 yet
NoLast == [set |-> FALSE, new |-> EmptyString, first |-> FALSE]

----------------------------------------------------------------------------
(* Handlers *)

\* handleCodeGet with the value of set stored as len too
HandleCodeGetLenAsSet(mc) ==
    Response(200, "", Len(mc) > 0, IF Len(mc) > 0 THEN 1 ELSE 0)

\* handleCodeGet()
HandleCodeGet(mc) == Response(200, "", Len(mc) > 0, Len(mc))

\* isDigits without the test against '9'
IsDigitsNoUpper(s) == \A i \in 1..Len(s) : ~(s[i] < Char0)

\* The lambda isDigits of handleCodePost
IsDigits(s) == \A i \in 1..Len(s) : ~(s[i] < Char0 \/ s[i] > Char9)

\* The format check of handleCodePost: TRUE when news is refused
BadFormat(news) ==
    Len(news) < MinCodeLen \/ Len(news) > MaxCodeLen \/ ~IsDigits(news)

\* The comparison of news with confirm, of their lengths only
MismatchByLength(news, confirm) == Len(news) # Len(confirm)

\* The comparison of news with confirm: TRUE when the request is refused
Mismatch(news, confirm) == news # confirm

\* The check of the current code, of the lengths only
WrongCurrentByLength(current, mc) == Len(mc) > 0 /\ Len(current) # Len(mc)

\* The check of the current code, made also when no code is set
WrongCurrentAlways(current, mc) == current # mc

\* The check of the current code: TRUE when the request is refused
WrongCurrent(current, mc) == Len(mc) > 0 /\ current # mc

\* The checks of handleCodePost with current checked before confirm
RejectCurrentFirst(body, mc) ==
    IF body.kind = "none" THEN ErrorResponse(400, "no_body")
    ELSE IF body.kind = "malformed" THEN ErrorResponse(400, "json")
    ELSE
        LET current == OrDefault(body.current, EmptyString)
            news == OrDefault(body.new, EmptyString)
            confirm == OrDefault(body.confirm, EmptyString)
        IN  IF BadFormat(news) THEN ErrorResponse(400, "fmt")
            ELSE IF WrongCurrent(current, mc) THEN ErrorResponse(403, "current")
            ELSE IF Mismatch(news, confirm) THEN ErrorResponse(400, "confirm")
            ELSE NoResp

\* handleCodePost() up to saveCode: the response of the first check that
\* fails, NoResp when all pass
Reject(body, mc) ==
    IF body.kind = "none" THEN ErrorResponse(400, "no_body")
    ELSE IF body.kind = "malformed" THEN ErrorResponse(400, "json")
    ELSE
        LET current == OrDefault(body.current, EmptyString)
            news == OrDefault(body.new, EmptyString)
            confirm == OrDefault(body.confirm, EmptyString)
        IN  IF BadFormat(news) THEN ErrorResponse(400, "fmt")
            ELSE IF Mismatch(news, confirm) THEN ErrorResponse(400, "confirm")
            ELSE IF WrongCurrent(current, mc) THEN ErrorResponse(403, "current")
            ELSE NoResp

\* handleCodePost(): the response, masterCode and file afterwards
HandleCodePost(body, mc, f, o) ==
    LET rej == Reject(body, mc)
        s == SaveCode(OrDefault(body.new, EmptyString), mc, f, o)
    IN  IF rej # NoResp THEN [resp |-> rej, masterCode |-> mc, file |-> f]
        ELSE IF ~s.ok
            THEN [resp |-> ErrorResponse(500, "save"),
                  masterCode |-> s.masterCode, file |-> s.file]
            ELSE [resp |-> Response(200, "", FALSE, 0),
                  masterCode |-> s.masterCode, file |-> s.file]

\* The OPTIONS lambda of registerCodeApi
HandleOptions == Response(204, "", FALSE, 0)

----------------------------------------------------------------------------
(* The state machine *)

TypeOK ==
    /\ masterCode \in Strings
    /\ file \in Files
    /\ op \in {"none", "GET", "POST", "OPTIONS"}
    /\ req \in Bodies
    /\ io \in IoOutcomes \cup {NoIo}
    /\ resp.status \in {0, 200, 204, 400, 403, 500}
    /\ pre.masterCode \in Strings /\ pre.file \in Files
    /\ last.new \in Strings

Init ==
    /\ masterCode = StartupMasterCode
    /\ file \in Files
    /\ op = "none"
    /\ req = BodyNone
    /\ resp = NoResp
    /\ io = NoIo
    /\ pre = NoPre
    /\ last = NoLast

\* loadCode(), which the firmware calls at startup; here it may run whenever
\* no request is being handled
Load ==
    /\ op = "none"
    /\ \E openOk \in BOOLEAN :
           masterCode' = LoadCode(masterCode, file, openOk).masterCode
    /\ last' = NoLast
    /\ UNCHANGED <<file, op, req, resp, io, pre>>

\* GET /api/code
Get ==
    /\ op = "none"
    /\ op' = "GET"
    /\ req' = BodyNone
    /\ resp' = HandleCodeGet(masterCode)
    /\ io' = NoIo
    /\ pre' = [masterCode |-> masterCode, file |-> file]
    /\ UNCHANGED <<masterCode, file, last>>

\* POST /api/code
Post ==
    /\ op = "none"
    /\ \E body \in Bodies :
         \E o \in (IF Reject(body, masterCode) = NoResp
                     THEN IoOutcomes ELSE {NoIo}) :
           LET r == HandleCodePost(body, masterCode, file, o)
           IN  /\ op' = "POST"
               /\ req' = body
               /\ resp' = r.resp
               /\ masterCode' = r.masterCode
               /\ file' = r.file
               /\ io' = o
               /\ pre' = [masterCode |-> masterCode, file |-> file]
               /\ last' = IF r.resp.status = 200
                           THEN [set |-> TRUE,
                                 new |-> OrDefault(body.new, EmptyString),
                                 first |-> Len(masterCode) = 0]
                           ELSE last

\* OPTIONS /api/code
Options ==
    /\ op = "none"
    /\ op' = "OPTIONS"
    /\ req' = BodyNone
    /\ resp' = HandleOptions
    /\ io' = NoIo
    /\ pre' = [masterCode |-> masterCode, file |-> file]
    /\ UNCHANGED <<masterCode, file, last>>

\* The response has been sent and the server waits for the next request
Sent ==
    /\ op # "none"
    /\ op' = "none"
    /\ req' = BodyNone
    /\ resp' = NoResp
    /\ io' = NoIo
    /\ pre' = NoPre
    /\ UNCHANGED <<masterCode, file, last>>

Next == Load \/ Get \/ Post \/ Options \/ Sent

Spec == Init /\ [][Next]_vars

----------------------------------------------------------------------------
(* The terms of the properties *)

\* ^[0-9]{4,8}$
MatchesFormat(s) ==
    /\ Len(s) \in MinCodeLen..MaxCodeLen
    /\ \A i \in 1..Len(s) : s[i] \in Char0..Char9

\* The members of the request just handled, a missing one being ""
ReqCurrent == IF req.current.kind = "string" THEN req.current.s ELSE <<>>
ReqNew == IF req.new.kind = "string" THEN req.new.s ELSE <<>>
ReqConfirm == IF req.confirm.kind = "string" THEN req.confirm.s ELSE <<>>

\* A POST whose body is present and parses has just been handled
ParsedPost == op = "POST" /\ req.kind = "json"

\* ... and its new is well formed and equal to confirm
ValidPost == ParsedPost /\ MatchesFormat(ReqNew) /\ ReqNew = ReqConfirm

CodeWasSet == pre.masterCode # <<>>

Answered(status, err) == resp.status = status /\ resp.err = err

\* A GET that follows a POST answered 200 reports the code that POST set
GetReportsLast(first) ==
    (op = "GET" /\ last.set /\ last.first = first)
        => resp.status = 200 /\ resp.set = TRUE /\ resp.len = Len(last.new)

----------------------------------------------------------------------------
(* Properties *)

\* C1: with a code set, a POST whose body parses and whose new is 4-8 digits
\* and equal to confirm, but whose current differs from the stored
\* masterCode, is answered 403 "current" and leaves masterCode as it was.
C1_WrongCurrentRefused ==
    (ValidPost /\ CodeWasSet /\ ReqCurrent # pre.masterCode)
        => Answered(403, "current") /\ masterCode = pre.masterCode

C1_Witness ==
    /\ ValidPost /\ CodeWasSet
    /\ req.current.kind = "string"
    /\ Len(ReqCurrent) = Len(pre.masterCode)
    /\ ReqCurrent # pre.masterCode
    /\ Answered(403, "current")

\* C2: a POST whose body parses and whose new does not match ^[0-9]{4,8}$
\* (a missing new being "") is answered 400 "fmt", whatever current, confirm
\* and the stored masterCode are.
C2_BadFormatRefused ==
    (ParsedPost /\ ~MatchesFormat(ReqNew)) => Answered(400, "fmt")

C2_Witness ==
    /\ ParsedPost
    /\ Len(ReqNew) = MaxCodeLen
    /\ ~MatchesFormat(ReqNew)
    /\ ReqConfirm = ReqNew
    /\ CodeWasSet /\ ReqCurrent = pre.masterCode
    /\ Answered(400, "fmt")

\* C3: a POST whose body parses, whose new is 4-8 digits and differs from
\* confirm, is answered 400 "confirm", whether or not a code is set and
\* whatever current is.
C3_MismatchRefused ==
    (ParsedPost /\ MatchesFormat(ReqNew) /\ ReqNew # ReqConfirm)
        => Answered(400, "confirm")

C3_Witness ==
    /\ ParsedPost /\ MatchesFormat(ReqNew)
    /\ MatchesFormat(ReqConfirm)
    /\ Len(ReqConfirm) = Len(ReqNew)
    /\ ReqNew # ReqConfirm
    /\ Answered(400, "confirm")

\* C4 as stated: with no code set, a POST with a valid new equal to confirm
\* and any current is answered 200, and the next GET reports set = true and
\* len = the length of new.
C4_Original ==
    /\ (ValidPost /\ ~CodeWasSet) => Answered(200, "")
    /\ GetReportsLast(TRUE)

\* C4 amended: with no code set, a POST with a valid new equal to confirm and
\* any current is answered 200 when FILE_CODE can be opened for writing, and
\* 500 "save" with still no code set when it cannot; after the 200 the next
\* GET reports set = true and len = the length of new.
C4_FirstSetup ==
    /\ (ValidPost /\ ~CodeWasSet /\ io.open)
           => Answered(200, "") /\ last.set /\ last.first /\ last.new = ReqNew
    /\ (ValidPost /\ ~CodeWasSet /\ ~io.open)
           => Answered(500, "save") /\ masterCode = <<>>
    /\ GetReportsLast(TRUE)

C4_Witness ==
    /\ op = "GET"
    /\ last.set /\ last.first
    /\ Len(last.new) = MinCodeLen + 1
    /\ resp.set = TRUE /\ resp.len = MinCodeLen + 1

\* C5: with a code set to c, a POST with current = c and a valid new equal to
\* confirm is answered 200, the persisted record then holds new, and the
\* next GET reports set = true and len = the length of new.  Stated for a
\* well-formed c and for the requests during which FILE_CODE could be opened
\* for writing.
C5_ChangePersists ==
    /\ (ValidPost /\ MatchesFormat(pre.masterCode)
            /\ ReqCurrent = pre.masterCode /\ io.open)
           => Answered(200, "") /\ file = FileJson(JStr(ReqNew))
    /\ GetReportsLast(FALSE)

\* C6: after a save that reports success (a POST answered 200) the code held
\* in the record at FILE_CODE equals the in-memory masterCode, also when the
\* write of the content fails after the file was opened.
C6_RecordMatchesMemory ==
    (op = "POST" /\ resp.status = 200) => file = FileJson(JStr(masterCode))

\* C7: masterCode is always either empty or a string of 4-8 decimal digits,
\* for any content of the record file at startup.
C7_MasterCodeWellFormed == masterCode = <<>> \/ MatchesFormat(masterCode)

\* C8: GET answers 200 with set = (masterCode is not empty) and len = the
\* number of characters of masterCode (so set = false, len = 0 before a code
\* is set), and changes neither masterCode nor the record.
C8_GetReports ==
    op = "GET" =>
        /\ resp.status = 200
        /\ resp.set = (masterCode # <<>>)
        /\ resp.len = Len(masterCode)
        /\ (masterCode = <<>> => resp.set = FALSE /\ resp.len = 0)
        /\ masterCode = pre.masterCode
        /\ file = pre.file

C8_Witness ==
    /\ op = "GET"
    /\ MatchesFormat(masterCode)
    /\ resp.set = TRUE /\ resp.len = Len(masterCode)

\* C9: a POST reports the first failing step in the order no_body, json, fmt,
\* confirm (400), current (403), save (500), else 200; the record is not
\* written unless the first five steps pass.
C9_FirstFailureWins ==
    op = "POST" =>
        LET present == req.kind # "none"
            parses == req.kind = "json"
            fmt == MatchesFormat(ReqNew)
            same == ReqNew = ReqConfirm
            auth == ~CodeWasSet \/ ReqCurrent = pre.masterCode
        IN  /\ CASE ~present -> Answered(400, "no_body")
                 [] present /\ ~parses -> Answered(400, "json")
                 [] parses /\ ~fmt -> Answered(400, "fmt")
                 [] parses /\ fmt /\ ~same -> Answered(400, "confirm")
                 [] parses /\ fmt /\ same /\ ~auth -> Answered(403, "current")
                 [] parses /\ fmt /\ same /\ auth /\ ~io.open
                        -> Answered(500, "save")
                 [] OTHER -> Answered(200, "")
            /\ ~(parses /\ fmt /\ same /\ auth)
                   => file = pre.file /\ io.write = "none"

C9_Witness ==
    /\ ParsedPost
    /\ MatchesFormat(ReqNew) /\ ReqNew # ReqConfirm
    /\ CodeWasSet /\ ReqCurrent # pre.masterCode
    /\ Answered(400, "confirm")
    /\ file = pre.file

\* C10: over GET, POST and OPTIONS requests masterCode changes only in a POST
\* answered 200, to that request's new; a request answered 204, 400, 403 or
\* 500 leaves it unchanged, and a code that is set never becomes unset.
C10_OnlyOkPostChanges ==
    [][~(op = "none" /\ op' = "none") =>
          /\ masterCode' # masterCode =>
                 /\ op' = "POST"
                 /\ resp'.status = 200
                 /\ req'.new.kind = "string"
                 /\ masterCode' = req'.new.s
          /\ resp'.status \in {204, 400, 403, 500} => masterCode' = masterCode
          /\ masterCode # <<>> => masterCode' # <<>>]_vars

C10_Witness ==
    /\ ValidPost /\ CodeWasSet
    /\ Answered(500, "save")
    /\ masterCode = pre.masterCode
    /\ masterCode # ReqNew

============================================================================
